---- MODULE Spec2Model ----
(***************************************************************************)
(* Model of the issue record store of app.py (Crowd Issue Reporting):      *)
(* the JSON file issues.json, the load / patch / save mutations, the       *)
(* report form, the delete button, the sidebar filter and the display      *)
(* order of the issue list.                                                *)
(*                                                                         *)
(* Strings whose content matters (title, description, address, search      *)
(* text, created_at) are sequences of one-character strings.  The file is  *)
(* a sequence of JSON tokens: "[", one token per object, "]", and, after    *)
(* a shorter text was written over a longer one, the rest of the old text. *)
(***************************************************************************)
EXTENDS Naturals, Integers, Sequences, FiniteSets, TLC

VARIABLES
    file,      \* issues.json: the tokens on disk (<<>>: missing or empty file)
    clock,     \* wall clock, in half seconds: it has advanced whenever a handler starts
    nextId,    \* number of uuid4 issue ids drawn so far
    nUp,       \* per issue id, the upvote_issue calls made since the issue was last deleted
    pc,        \* per session: "idle", "open" (data patched, file not yet opened),
               \* "write" (file opened and truncated, json.dump not yet flushed)
    mem,       \* per session: the in-memory list `data` of the running handler
    clean,     \* per session: no other session touched the file since this one opened it
    before,    \* per session: what load_data returned just before this one opened the file
    persisted, \* per issue id, the update log last seen in a readable issues.json
               \* (kept while sessions run concurrently)
    cat, stt, q, only_mine,   \* sidebar widgets
    viewer,    \* session whose script run computed the view (None: no run yet)
    filtered,  \* the list `filtered` of the script run
    shown      \* the order in which the issue list is rendered

vars == <<file, clock, nextId, nUp, pc, mem, clean, before, persisted,
          cat, stt, q, only_mine, viewer, filtered, shown>>

sessVars  == <<pc, mem, clean, before>>
viewVars  == <<cat, stt, q, only_mine, viewer, filtered, shown>>

----------------------------------------------------------------------------
(* Bounds of the model *)

MaxClock   == 4    \* the clock value at which the sessions stop
MaxView    == 2    \* length of the lists the filter and the sort are applied to

----------------------------------------------------------------------------
(* Values *)

SP == " "
None == "None"
NoImage == "None"

Users == {"u1", "u2"}          \* st.session_state.user_id of the sessions

CATEGORIES == <<"roads", "lighting", "waste", "water", "safety", "other">>
STATUS == <<"open", "in_progress", "resolved">>

Range(s) == {s[i] : i \in DOMAIN s}

IsSpace(c) == c = SP

RECURSIVE LStrip(_)
LStrip(s) == IF s # <<>> /\ IsSpace(Head(s)) THEN LStrip(Tail(s)) ELSE s

RECURSIVE RStrip(_)
RStrip(s) ==
    IF s # <<>> /\ IsSpace(s[Len(s)]) THEN RStrip(SubSeq(s, 1, Len(s) - 1)) ELSE s

\* str.strip()
Strip(s) == RStrip(LStrip(s))

LowerChar(c) ==
    IF c = "A" THEN "a" ELSE IF c = "B" THEN "b" ELSE IF c = "M" THEN "m" ELSE c

\* str.lower()
Lower(s) == [i \in DOMAIN s |-> LowerChar(s[i])]

\* a in b, for strings
IsSubstr(a, b) ==
    \E i \in 0..Len(b) : i + Len(a) <= Len(b) /\ SubSeq(b, i + 1, i + Len(a)) = a

\* code point of a character of a created_at string
Ord(c) ==
    CASE c = "." -> 46
      [] c = "0" -> 48
      [] c = "1" -> 49
      [] c = "2" -> 50
      [] c = "3" -> 51
      [] c = "4" -> 52
      [] c = "5" -> 53
      [] c = "Z" -> 90

\* a < b, for strings (lexicographic by code point)
RECURSIVE StrLess(_, _)
StrLess(a, b) ==
    IF b = <<>> THEN FALSE
    ELSE IF a = <<>> THEN TRUE
    ELSE IF Ord(Head(a)) # Ord(Head(b)) THEN Ord(Head(a)) < Ord(Head(b))
    ELSE StrLess(Tail(a), Tail(b))

Digit(n) ==
    CASE n = 0 -> "0" [] n = 1 -> "1" [] n = 2 -> "2" [] n = 3 -> "3" [] n = 4 -> "4"
      [] n = 5 -> "5"

\* datetime.utcnow().isoformat() + "Z": the fraction is printed only when it is not zero
IsoFormat(t) ==
    <<Digit(t \div 2)>> \o (IF t % 2 = 0 THEN <<>> ELSE <<".", "5">>) \o <<"Z">>

\* int(time.time()*1000)
Millis(t) == t * 500

----------------------------------------------------------------------------
(* issues.json *)

OpenTok  == [t |-> "[", v |-> <<>>]
CloseTok == [t |-> "]", v |-> <<>>]
ObjTok(it) == [t |-> "obj", v |-> <<it>>]
\* n bytes that an earlier, longer text left behind the text written last
TailTok(n) == [t |-> "tail", v |-> <<n>>]

\* json.dump(items, f)
Dump(items) ==
    <<OpenTok>> \o [i \in 1..Len(items) |-> ObjTok(items[i])] \o <<CloseTok>>

WellFormed(f) ==
    /\ Len(f) >= 2
    /\ f[1].t = "["
    /\ f[Len(f)].t = "]"
    /\ \A i \in 2..(Len(f) - 1) : f[i].t = "obj"

\* json.load(f), or [] on JSONDecodeError or when the file does not exist
load_data(f) ==
    IF WellFormed(f) THEN [i \in 1..(Len(f) - 2) |-> f[i + 1].v[1]] ELSE <<>>

\* save_data(items), when nothing else touches the file while it runs
save_data(items) == Dump(items)

----------------------------------------------------------------------------
(* Issue records *)

\* the values uuid.uuid4() returns, in the order it returns them
Uuids == <<"x", "y">>
uuid4(n) == Uuids[n + 1]

Ids == {Uuids[i] : i \in DOMAIN Uuids}

IdsOf(data) == {data[i].id : i \in DOMAIN data}

\* the first record of data with this id (callers make sure there is one)
Find(data, id) == data[CHOOSE i \in DOMAIN data :
                          data[i].id = id /\ \A j \in 1..(i - 1) : data[j].id # id]

\* pathlib.Path(image_file.name).suffix
Suffix(name) == IF name = "photo.png" THEN ".png" ELSE ""

\* geocode_address: coordinates from the geocoding service, or <<>> for None.
\* The module-level cache is rebuilt empty by every script run.
NoGeo == <<>>
GeoResult == <<28, 76>>
geocode_address(address) ==
    IF address = <<>> THEN {NoGeo}
    ELSE IF Strip(address) = <<>> THEN {NoGeo}
    ELSE {NoGeo, GeoResult}

\* a payload that starts with one vote
new_issue_payload_voted(user_id, issue_id, title, description, category, lat, lng, address, image_file, now) ==
    [id          |-> issue_id,
     title       |-> Strip(title),
     description |-> Strip(description),
     category    |-> category,
     status      |-> "open",
     lat         |-> lat,
     lng         |-> lng,
     address     |-> Strip(address),
     image_path  |-> <<>>,
     votes       |-> 1,
     created_at  |-> IsoFormat(now),
     created_by  |-> user_id,
     updates     |-> <<[ts |-> Millis(now), text |-> "Issue reported", status |-> "open"]>>]

new_issue_payload(user_id, issue_id, title, description, category, lat, lng, address, image_file, now) ==
    [id          |-> issue_id,
     title       |-> Strip(title),
     description |-> Strip(description),
     category    |-> category,
     status      |-> "open",
     lat         |-> lat,
     lng         |-> lng,
     address     |-> Strip(address),
     image_path  |-> IF image_file = NoImage THEN <<>>
                     ELSE <<issue_id, IF Suffix(image_file) # "" THEN Suffix(image_file)
                                      ELSE ".jpg">>,
     votes       |-> 0,
     created_at  |-> IsoFormat(now),
     created_by  |-> user_id,
     updates     |-> <<[ts |-> Millis(now), text |-> "Issue reported", status |-> "open"]>>]

\* add_issue, between its load_data and its save_data
add_issue(data, issue) == Append(data, issue)

\* index of the first record with this id, 0 when there is none
FirstIdx(data, id) ==
    IF \E i \in DOMAIN data : data[i].id = id
    THEN CHOOSE i \in DOMAIN data : data[i].id = id /\ \A j \in 1..(i - 1) : data[j].id # id
    ELSE 0

\* it.update(patch)
DictUpdate(it, patch) ==
    [f \in DOMAIN it |-> IF f \in DOMAIN patch THEN patch[f] ELSE it[f]]

\* update_issue, between its load_data and its save_data
update_issue(data, issue_id, patch) ==
    LET i == FirstIdx(data, issue_id)
    IN  IF i = 0 THEN data ELSE [data EXCEPT ![i] = DictUpdate(data[i], patch)]

\* upvote_issue without its test of the id
upvote_issue_every(data, issue_id) ==
    [i \in DOMAIN data |-> [data[i] EXCEPT !.votes = data[i].votes + 1]]

\* upvote_issue, between its load_data and its save_data
upvote_issue(data, issue_id) ==
    LET i == FirstIdx(data, issue_id)
    IN  IF i = 0 THEN data ELSE [data EXCEPT ![i].votes = data[i].votes + 1]

\* add_update without its "if status: it['status'] = status"
add_update_log_only(data, issue_id, text, status, now) ==
    LET i == FirstIdx(data, issue_id)
    IN  IF i = 0 THEN data
        ELSE LET it == data[i]
                 entry == [ts     |-> Millis(now),
                           text   |-> text,
                           status |-> IF status # None THEN status ELSE it.status]
             IN  [data EXCEPT ![i] = [it EXCEPT !.updates = Append(it.updates, entry)]]

\* add_update, between its load_data and its save_data (status None: not given)
add_update(data, issue_id, text, status, now) ==
    LET i == FirstIdx(data, issue_id)
    IN  IF i = 0 THEN data
        ELSE LET it == data[i]
                 entry == [ts     |-> Millis(now),
                           text   |-> text,
                           status |-> IF status # None THEN status ELSE it.status]
             IN  [data EXCEPT ![i] =
                    [it EXCEPT !.updates = Append(it.updates, entry),
                               !.status  = IF status # None THEN status ELSE it.status]]

\* the delete button's [x for x in data if x["id"] != it["id"]]
delete_issue(data, issue_id) ==
    LET Keep(x) == x.id # issue_id IN SelectSeq(data, Keep)

\* a delete button rendered for every session
CanDeleteAlways(it, user_id) == TRUE

\* the delete button is rendered only for the issue's owner
CanDelete(it, user_id) == it.created_by = user_id

\* a check of the title alone
FormValidTitle(title, description) == Strip(title) # <<>>

\* the form's check of its required fields
FormValid(title, description) == Strip(title) # <<>> /\ Strip(description) # <<>>

\* the map loop's test for an issue that still needs coordinates
NeedsCoords(it) == (it.lat = 0 \/ it.lng = 0) /\ it.address # <<>>

----------------------------------------------------------------------------
(* What the report form is submitted with *)

Forms ==
    { [title |-> <<SP, "a", SP>>, description |-> <<"b">>, category |-> "roads",
       lat |-> 12, lng |-> 77, address |-> <<>>, image |-> NoImage],
      [title |-> <<"A">>, description |-> <<"b", SP>>, category |-> "other",
       lat |-> 0, lng |-> 0, address |-> <<SP, "m">>, image |-> "photo.png"],
      [title |-> <<SP>>, description |-> <<"b">>, category |-> "roads",
       lat |-> 12, lng |-> 77, address |-> <<>>, image |-> NoImage],
      [title |-> <<"a">>, description |-> <<>>, category |-> "waste",
       lat |-> 12, lng |-> 77, address |-> <<"m">>, image |-> "capture"] }

\* the geocoder's answers the submit handler can get for this form
FormGeo(form) ==
    IF form.address # <<>> /\ Strip(form.address) # <<>>
    THEN geocode_address(form.address) ELSE {NoGeo}

\* the payload the submit handler builds: geocoded coordinates are preferred
FormPayload(user_id, issue_id, form, geo, now) ==
    new_issue_payload(user_id, issue_id, form.title, form.description, form.category,
                      IF geo # NoGeo THEN geo[1] ELSE form.lat,
                      IF geo # NoGeo THEN geo[2] ELSE form.lng,
                      form.address, form.image, now)

\* what add_update is called with: the two buttons, and a call that gives no status
UpdateCalls ==
    { <<"Marked in progress", "in_progress">>,
      <<"Marked resolved", "resolved">>,
      <<"Comment", None>> }

----------------------------------------------------------------------------
(* The handlers, as functions of the file they find *)

\* the submit handler: st.error and nothing else, or add_issue(payload)
SubmitHandler(f, u, issue_id, form, geo, now) ==
    IF ~FormValid(form.title, form.description) THEN f
    ELSE save_data(add_issue(load_data(f), FormPayload(u, issue_id, form, geo, now)))

UpvoteHandler(f, id) == save_data(upvote_issue(load_data(f), id))

UpdateHandler(f, id, text, status, now) ==
    save_data(add_update(load_data(f), id, text, status, now))

\* the delete button: there is none for a session that does not own the issue
DeleteHandler(f, u, id) ==
    IF CanDelete(Find(load_data(f), id), u)
    THEN save_data(delete_issue(load_data(f), id))
    ELSE f

BackfillHandler(f, id, geo) ==
    save_data(update_issue(load_data(f), id, [lat |-> geo[1], lng |-> geo[2]]))

----------------------------------------------------------------------------
(* Bookkeeping of the model *)

Track(p, data) ==
    [id \in Ids |-> IF id \in IdsOf(data) THEN Find(data, id).updates ELSE p[id]]

Sessions == Users

StoreInit ==
    /\ file = <<>>
    /\ clock = 0
    /\ nextId = 0
    /\ nUp = [id \in Ids |-> 0]
    /\ persisted = [id \in Ids |-> <<>>]

SessInit ==
    /\ pc = [s \in Sessions |-> "idle"]
    /\ mem = [s \in Sessions |-> <<>>]
    /\ clean = [s \in Sessions |-> TRUE]
    /\ before = [s \in Sessions |-> <<>>]

ViewInit ==
    /\ cat = "all"
    /\ stt = "all"
    /\ q = <<>>
    /\ only_mine = FALSE
    /\ viewer = None
    /\ filtered = <<>>
    /\ shown = <<>>

Init == StoreInit /\ SessInit /\ ViewInit

----------------------------------------------------------------------------
(* One session at a time: every handler runs from its load_data to the end *)
(* of its save_data before the next one starts.                            *)

\* "Submit Issue": a rejected form draws no id
Submit(u, form) ==
    /\ FormValid(form.title, form.description) => nextId < Len(Uuids)
    /\ clock < MaxClock
    /\ \E geo \in FormGeo(form) :
         file' = SubmitHandler(file, u, uuid4(nextId), form, geo, clock)
    /\ nextId' = IF FormValid(form.title, form.description) THEN nextId + 1 ELSE nextId
    /\ clock' = clock + 1
    /\ UNCHANGED <<nUp, persisted, sessVars, viewVars>>

\* the Upvote button of a listed issue
ClickUpvote(id) ==
    /\ id \in IdsOf(load_data(file))
    /\ clock < MaxClock
    /\ file' = UpvoteHandler(file, id)
    /\ nUp' = [nUp EXCEPT ![id] = @ + 1]
    /\ clock' = clock + 1
    /\ UNCHANGED <<nextId, persisted, sessVars, viewVars>>

\* add_update on a listed issue ("In Progress", "Resolve", or a call without status)
AppendUpdate(id, call) ==
    /\ id \in IdsOf(load_data(file))
    /\ clock < MaxClock
    /\ file' = UpdateHandler(file, id, call[1], call[2], clock)
    /\ clock' = clock + 1
    /\ UNCHANGED <<nextId, nUp, persisted, sessVars, viewVars>>

\* session u asks for a listed issue to be deleted
RequestDelete(u, id) ==
    /\ id \in IdsOf(load_data(file))
    /\ clock < MaxClock
    /\ file' = DeleteHandler(file, u, id)
    /\ nUp' = [i \in Ids |-> IF i \in IdsOf(load_data(file')) THEN nUp[i] ELSE 0]
    /\ clock' = clock + 1
    /\ UNCHANGED <<nextId, persisted, sessVars, viewVars>>

\* the map loop geocodes an issue without coordinates and persists the result
Backfill(id) ==
    /\ id \in IdsOf(load_data(file))
    /\ NeedsCoords(Find(load_data(file), id))
    /\ clock < MaxClock
    /\ \E geo \in geocode_address(Find(load_data(file), id).address) :
         /\ geo # NoGeo
         /\ file' = BackfillHandler(file, id, geo)
    /\ clock' = clock + 1
    /\ UNCHANGED <<nextId, nUp, persisted, sessVars, viewVars>>

Next ==
    \/ \E u \in Users, form \in Forms : Submit(u, form)
    \/ \E id \in Ids : ClickUpvote(id)
    \/ \E id \in Ids, call \in UpdateCalls : AppendUpdate(id, call)
    \/ \E u \in Users, id \in Ids : RequestDelete(u, id)
    \/ \E id \in Ids : Backfill(id)

Spec == Init /\ [][Next]_vars

----------------------------------------------------------------------------
(* Concurrent sessions: Streamlit runs each session's script in its own     *)
(* thread.  A handler is three steps: load_data and the patch in memory;    *)
(* save_data's open(DB_FILE, "w"), which truncates the file; and the end of *)
(* its with block, where the buffered text of json.dump is written at the   *)
(* writer's offset 0 (the collections here fit the write buffer).           *)

\* length of the JSON text of a string of the program
CharLen(str) ==
    CASE str = "open" -> 4 [] str = "in_progress" -> 11 [] str = "resolved" -> 8
      [] str = "roads" -> 5 [] str = "lighting" -> 8 [] str = "waste" -> 5
      [] str = "water" -> 5 [] str = "safety" -> 6 [] str = "other" -> 5
      [] str = "Issue reported" -> 14 [] str = "Marked in progress" -> 18
      [] str = "Marked resolved" -> 15 [] str = "Comment" -> 7 [] str = "Marked" -> 6
      [] OTHER -> 2

NumLen(n) == IF n < 10 THEN 1 ELSE IF n < 100 THEN 2 ELSE IF n < 1000 THEN 3 ELSE 4

RECURSIVE UpdatesLen(_)
UpdatesLen(ups) ==
    IF ups = <<>> THEN 0
    ELSE NumLen(Head(ups).ts) + CharLen(Head(ups).text) + CharLen(Head(ups).status)
         + UpdatesLen(Tail(ups))

\* length of the JSON text of an issue, up to what every issue's text has
JsonLen(it) ==
    Len(it.title) + Len(it.description) + Len(it.address) + CharLen(it.category)
    + CharLen(it.status) + NumLen(it.lat) + NumLen(it.lng) + NumLen(it.votes)
    + Len(it.created_at) + (IF it.image_path = <<>> THEN 0 ELSE 2)
    + UpdatesLen(it.updates) + Len(it.updates)

RECURSIVE ByteLen(_)
ByteLen(f) ==
    IF f = <<>> THEN 0
    ELSE (IF Head(f).t = "obj" THEN 1 + JsonLen(Head(f).v[1])
          ELSE IF Head(f).t = "tail" THEN Head(f).v[1]
          ELSE 1)
         + ByteLen(Tail(f))

\* an open that does not truncate
TruncateNot(f) == f

\* open(DB_FILE, "w")
Truncate(f) == <<>>

\* the text of json.dump, flushed at offset 0 when the file is closed: what a
\* longer text left behind it stays in the file
Overwrite(f, toks) ==
    IF ByteLen(toks) >= ByteLen(f) THEN toks
    ELSE toks \o <<TailTok(ByteLen(f) - ByteLen(toks))>>

\* session s has loaded and patched: it goes on to save_data(data)
Loaded(s, data) ==
    /\ pc' = [pc EXCEPT ![s] = "open"]
    /\ mem' = [mem EXCEPT ![s] = data]
    /\ clock' = clock + 1
    /\ UNCHANGED <<file, persisted, clean, before, viewVars>>

CSubmit(s, form) ==
    /\ pc[s] = "idle"
    /\ clock < MaxClock
    /\ FormValid(form.title, form.description)
    /\ nextId < Len(Uuids)
    /\ \E geo \in FormGeo(form) :
         Loaded(s, add_issue(load_data(file),
                             FormPayload(s, uuid4(nextId), form, geo, clock)))
    /\ nextId' = nextId + 1
    /\ UNCHANGED nUp

CUpvote(s, id) ==
    /\ pc[s] = "idle"
    /\ clock < MaxClock
    /\ id \in IdsOf(load_data(file))
    /\ Loaded(s, upvote_issue(load_data(file), id))
    /\ nUp' = [nUp EXCEPT ![id] = @ + 1]
    /\ UNCHANGED nextId

CUpdate(s, id, call) ==
    /\ pc[s] = "idle"
    /\ clock < MaxClock
    /\ id \in IdsOf(load_data(file))
    /\ Loaded(s, add_update(load_data(file), id, call[1], call[2], clock))
    /\ UNCHANGED <<nextId, nUp>>

CDelete(s, id) ==
    /\ pc[s] = "idle"
    /\ clock < MaxClock
    /\ id \in IdsOf(load_data(file))
    /\ CanDelete(Find(load_data(file), id), s)
    /\ Loaded(s, delete_issue(load_data(file), id))
    /\ nUp' = [nUp EXCEPT ![id] = 0]
    /\ UNCHANGED nextId

CBackfill(s, id) ==
    /\ pc[s] = "idle"
    /\ clock < MaxClock
    /\ id \in IdsOf(load_data(file))
    /\ NeedsCoords(Find(load_data(file), id))
    /\ \E geo \in geocode_address(Find(load_data(file), id).address) :
         /\ geo # NoGeo
         /\ Loaded(s, update_issue(load_data(file), id, [lat |-> geo[1], lng |-> geo[2]]))
    /\ UNCHANGED <<nextId, nUp>>

\* save_data opens the file
COpen(s) ==
    /\ pc[s] = "open"
    /\ file' = Truncate(file)
    /\ before' = [before EXCEPT ![s] = load_data(file)]
    /\ pc' = [pc EXCEPT ![s] = "write"]
    /\ clean' = [t \in Sessions |-> t = s]
    /\ persisted' = Track(persisted, load_data(file'))
    /\ UNCHANGED <<clock, nextId, nUp, mem, viewVars>>

\* save_data leaves its with block: the text of json.dump is flushed, the file closed
CWrite(s) ==
    /\ pc[s] = "write"
    /\ file' = Overwrite(file, Dump(mem[s]))
    /\ pc' = [pc EXCEPT ![s] = "idle"]
    /\ mem' = [mem EXCEPT ![s] = <<>>]
    /\ before' = [before EXCEPT ![s] = <<>>]
    /\ clean' = [t \in Sessions |-> t # s /\ pc[t] # "write"]
    /\ persisted' = Track(persisted, load_data(file'))
    /\ UNCHANGED <<clock, nextId, nUp, viewVars>>

NextConc ==
    \/ \E s \in Sessions, form \in Forms : CSubmit(s, form)
    \/ \E s \in Sessions, id \in Ids : CUpvote(s, id)
    \/ \E s \in Sessions, id \in Ids, call \in UpdateCalls : CUpdate(s, id, call)
    \/ \E s \in Sessions, id \in Ids : CDelete(s, id)
    \/ \E s \in Sessions, id \in Ids : CBackfill(s, id)
    \/ \E s \in Sessions : COpen(s)
    \/ \E s \in Sessions : CWrite(s)

\* the sessions start with one issue on file: u1 reported it with an address the
\* geocoder did not resolve
FirstIssue ==
    LET form == CHOOSE f \in Forms : FormValid(f.title, f.description) /\ f.lat = 0
    IN  FormPayload("u1", uuid4(0), form, NoGeo, 0)

InitConc ==
    /\ file = save_data(<<FirstIssue>>)
    /\ clock = 2
    /\ nextId = 1
    /\ nUp = [id \in Ids |-> 0]
    /\ persisted = Track([id \in Ids |-> <<>>], <<FirstIssue>>)
    /\ SessInit
    /\ ViewInit

SpecConc == InitConc /\ [][NextConc]_vars

----------------------------------------------------------------------------
(* The script run: the sidebar filter and the order of the issue list *)

\* matches(it) without q.lower()
matches_case(it, c, st, mine, query, user_id) ==
    IF c # "all" /\ it.category # c THEN FALSE
    ELSE IF st # "all" /\ it.status # st THEN FALSE
    ELSE IF mine /\ it.created_by # user_id THEN FALSE
    ELSE IF query # <<>>
         THEN IsSubstr(query,
                       Lower(it.title \o <<SP>> \o it.description \o <<SP>> \o it.address))
         ELSE TRUE

\* matches(it), with the sidebar's values and the session's user_id
matches(it, c, st, mine, query, user_id) ==
    IF c # "all" /\ it.category # c THEN FALSE
    ELSE IF st # "all" /\ it.status # st THEN FALSE
    ELSE IF mine /\ it.created_by # user_id THEN FALSE
    ELSE IF query # <<>>
         THEN IsSubstr(Lower(query),
                       Lower(it.title \o <<SP>> \o it.description \o <<SP>> \o it.address))
         ELSE TRUE

\* [it for it in data if matches(it)]
Filter(data, c, st, mine, query, user_id) ==
    LET Keep(it) == matches(it, c, st, mine, query, user_id) IN SelectSeq(data, Keep)

\* a sort key with the votes ascending
SortKeyAscending(x) == <<IF x.status # "open" THEN 1 ELSE 0, x.votes, x.created_at>>

\* the sort key (x.get("status") != "open", -x.get("votes",0), x.get("created_at",""))
SortKey(x) == <<IF x.status # "open" THEN 1 ELSE 0, 0 - x.votes, x.created_at>>

\* tuple comparison of two sort keys
KeyLess(a, b) ==
    IF a[1] # b[1] THEN a[1] < b[1]
    ELSE IF a[2] # b[2] THEN a[2] < b[2]
    ELSE StrLess(a[3], b[3])

\* x put into the sorted list l, behind the records that do not sort after it
RECURSIVE Insert(_, _)
Insert(x, l) ==
    IF l = <<>> THEN <<x>>
    ELSE IF KeyLess(SortKey(x), SortKey(Head(l))) THEN <<x>> \o l
    ELSE <<Head(l)>> \o Insert(x, Tail(l))

RECURSIVE SortInto(_, _)
SortInto(acc, rest) ==
    IF rest = <<>> THEN acc ELSE SortInto(Insert(Head(rest), acc), Tail(rest))

\* sorted(filtered, key=..., reverse=False): a stable sort
sorted(l) == SortInto(<<>>, l)

\* one run of the script for session u, with the sidebar as given
ScriptRun(u, c, st, query, mine) ==
    /\ viewer \in {None, u}
    /\ viewer' = u
    /\ cat' = c
    /\ stt' = st
    /\ q' = query
    /\ only_mine' = mine
    /\ filtered' = Filter(load_data(file), c, st, mine, query, u)
    /\ shown' = sorted(filtered')
    /\ UNCHANGED <<file, clock, nextId, nUp, persisted, sessVars>>

CategoryChoices == {"all"} \cup Range(CATEGORIES)
StatusChoices == {"all"} \cup Range(STATUS)
Queries == { <<>>, <<"a", "b">>, <<"a", SP, "b">>, <<"M">> }

\* issue lists that the handlers can have left on file
ViewUuids == <<"p", "q", "r", "s">>

RECURSIVE UpvoteTimes(_, _, _)
UpvoteTimes(data, id, n) ==
    IF n = 0 THEN data ELSE UpvoteTimes(upvote_issue(data, id), id, n - 1)

\* an issue reported at time t by user with form, then upvoted and marked
MadeIssue(id, user, form, t, votes, status) ==
    LET d0 == <<FormPayload(user, id, form, NoGeo, t)>>
        d1 == UpvoteTimes(d0, id, votes)
        d2 == IF status = "open" THEN d1
              ELSE add_update(d1, id, "Marked", status, t + 1)
    IN  d2[1]

ValidForms == {f \in Forms : FormValid(f.title, f.description)}

\* shapes of issues: <<user, form, time, votes, status>>
SortShapes ==
    {"u1"} \X {CHOOSE f \in ValidForms : f.lat # 0} \X (0..2) \X (0..1) \X Range(STATUS)

FilterShapes == {"u1"} \X ValidForms \X {0} \X {0} \X Range(STATUS)

ShapeLists(shapes) == UNION {[1..n -> shapes] : n \in 0..MaxView}

IssuesOf(l) ==
    [i \in 1..Len(l) |-> MadeIssue(ViewUuids[i], l[i][1], l[i][2], l[i][3], l[i][4], l[i][5])]

InitView(shapes) ==
    /\ \E l \in ShapeLists(shapes) : file = save_data(IssuesOf(l))
    /\ clock = 0
    /\ nextId = 0
    /\ nUp = [id \in Ids |-> 0]
    /\ persisted = [id \in Ids |-> <<>>]
    /\ SessInit
    /\ ViewInit

\* a change of one sidebar widget reruns the script
SetCategory(u, c) == ScriptRun(u, c, stt, q, only_mine)
SetStatus(u, st) == ScriptRun(u, cat, st, q, only_mine)
SetQuery(u, query) == ScriptRun(u, cat, stt, query, only_mine)
SetOnlyMine(u, mine) == ScriptRun(u, cat, stt, q, mine)

NextFilter ==
    \/ \E u \in Users, c \in CategoryChoices : SetCategory(u, c)
    \/ \E u \in Users, st \in StatusChoices : SetStatus(u, st)
    \/ \E u \in Users, query \in Queries : SetQuery(u, query)
    \/ \E u \in Users, mine \in BOOLEAN : SetOnlyMine(u, mine)

SpecFilter == InitView(FilterShapes) /\ [][NextFilter]_vars

\* the script runs with the sidebar left as it is
Rerun(u) == ScriptRun(u, cat, stt, q, only_mine)

NextSort == \E u \in Users : Rerun(u)

SpecSort == InitView(SortShapes) /\ [][NextSort]_vars

----------------------------------------------------------------------------
(* Properties of the store, one session at a time (Spec) *)

Data == load_data(file)

\* old without the records whose id is id, the rest in their order
Without(old, id) == LET Keep(x) == x.id # id IN SelectSeq(old, Keep)

IsPrefix(a, b) == Len(a) <= Len(b) /\ SubSeq(b, 1, Len(a)) = a

\* C1: an upvote of a persisted issue adds exactly 1 to that record's votes and
\* leaves its other fields and every other record as they were; after N upvotes
\* in a row a record holds N votes.
C1_Upvote ==
    /\ [](\A i \in DOMAIN Data : Data[i].votes = nUp[Data[i].id])
    /\ [][\A id \in Ids : ClickUpvote(id) =>
            LET old == load_data(file)
                new == load_data(file')
            IN  /\ DOMAIN new = DOMAIN old
                /\ \A i \in DOMAIN old :
                     IF old[i].id = id
                     THEN new[i] = [old[i] EXCEPT !.votes = old[i].votes + 1]
                     ELSE new[i] = old[i]]_vars

\* two issues on file, one of them upvoted twice
C1_Witness ==
    /\ Len(Data) = 2
    /\ \E i \in DOMAIN Data : Data[i].votes = 2 /\ nUp[Data[i].id] = 2

\* C2: add_update appends exactly one entry to the record's updates; a given
\* status becomes the record's status and the entry's status; without a status
\* the record's status stays and the entry carries it.
C2_AppendUpdate ==
    [][\A id \in Ids, call \in UpdateCalls : AppendUpdate(id, call) =>
         LET old == Find(load_data(file), id)
             new == Find(load_data(file'), id)
             entry == new.updates[Len(new.updates)]
         IN  /\ Len(new.updates) = Len(old.updates) + 1
             /\ IsPrefix(old.updates, new.updates)
             /\ entry.text = call[1]
             /\ IF call[2] # None
                THEN new.status = call[2] /\ entry.status = call[2]
                ELSE new.status = old.status /\ entry.status = old.status]_vars

\* an issue marked in progress and then commented on without a status
C2_Witness ==
    \E i \in DOMAIN Data :
        /\ Len(Data[i].updates) = 3
        /\ Data[i].updates[2].status = "in_progress"
        /\ Data[i].updates[3].text = "Comment"
        /\ Data[i].updates[3].status = "in_progress"
        /\ Data[i].status = "in_progress"

\* C3: a delete request removes the record exactly when the requester is the
\* record's created_by; for any other requester the file is unchanged and the
\* record is still loaded.
C3_Delete ==
    [][\A u \in Users, id \in Ids : RequestDelete(u, id) =>
         LET old == load_data(file)
             new == load_data(file')
             rec == Find(old, id)
         IN  IF u = rec.created_by
             THEN new = Without(old, id) /\ id \notin IdsOf(new)
             ELSE file' = file /\ \E i \in DOMAIN new : new[i] = rec]_vars

\* two issues were reported and one of them has been deleted
C3_Witness == nextId = 2 /\ Len(Data) = 1 /\ Data[1].id = uuid4(1)

\* C4: a valid submission stores a record whose id no stored record has, with
\* status open, no votes and one update entry; the file then holds the records
\* it held, followed by that record.
C4_Create ==
    [][\A u \in Users, form \in Forms :
         (Submit(u, form) /\ Strip(form.title) # <<>> /\ Strip(form.description) # <<>>) =>
            LET old == load_data(file)
                new == load_data(file')
                rec == new[Len(new)]
            IN  /\ Len(new) = Len(old) + 1
                /\ IsPrefix(old, new)
                /\ rec.id \notin IdsOf(old)
                /\ rec.status = "open"
                /\ rec.votes = 0
                /\ Len(rec.updates) = 1
                /\ rec.title = Strip(form.title)
                /\ rec.created_by = u]_vars

\* a second issue has been stored behind one that has votes and updates
C4_Witness ==
    /\ Len(Data) = 2
    /\ Data[1].votes = 1
    /\ Len(Data[1].updates) = 2
    /\ Data[2].votes = 0

\* C5: a submission whose title or description is empty after trimming is
\* rejected and leaves the file as it was.
C5_Reject ==
    [][\A u \in Users, form \in Forms :
         (Submit(u, form) /\ (Strip(form.title) = <<>> \/ Strip(form.description) = <<>>)) =>
            file' = file /\ nextId' = nextId]_vars

\* time has passed over a handler and nothing was stored: a submission was rejected
C5_Witness == nextId = 0 /\ clock = 1 /\ file = <<>>

----------------------------------------------------------------------------
(* Properties of the script run (SpecSort, SpecFilter) *)

\* l holds the records of m, each as often as m does
SameRecords(l, m) ==
    /\ Len(l) = Len(m)
    /\ \A x \in Range(l) \cup Range(m) :
         Cardinality({i \in DOMAIN l : l[i] = x}) = Cardinality({i \in DOMAIN m : m[i] = x})

\* l is ordered by the rank of the status, then by votes descending, then by
\* the created_at string
OrderedBy(l, rank) ==
    \A i, j \in DOMAIN l :
        i < j =>
            /\ rank[l[i].status] <= rank[l[j].status]
            /\ rank[l[i].status] = rank[l[j].status] => l[i].votes >= l[j].votes
            /\ (rank[l[i].status] = rank[l[j].status] /\ l[i].votes = l[j].votes)
                  => ~StrLess(l[j].created_at, l[i].created_at)

ResolvedLast == [st \in Range(STATUS) |-> IF st = "resolved" THEN 1 ELSE 0]
OpenFirst == [st \in Range(STATUS) |-> IF st = "open" THEN 0 ELSE 1]

\* C6, as claimed: the list shows open and in_progress issues before resolved
\* ones, within a bucket by votes descending, then by created_at ascending.
C6_Original == viewer # None => SameRecords(shown, filtered) /\ OrderedBy(shown, ResolvedLast)

\* C6, amended: the list shows open issues before in_progress and resolved ones;
\* within each of these two buckets by votes descending, then by the created_at
\* string ascending.
C6_Amended == viewer # None => SameRecords(shown, filtered) /\ OrderedBy(shown, OpenFirst)

\* a resolved issue with a vote is listed before an in_progress issue without one
C6_Witness ==
    /\ viewer # None
    /\ Len(shown) = 2
    /\ shown # filtered
    /\ shown[1].status = "resolved" /\ shown[1].votes = 1
    /\ shown[2].status = "in_progress" /\ shown[2].votes = 0

\* the sidebar's criteria, the search text being looked for in blob
Criteria(it, blob) ==
    /\ cat = "all" \/ it.category = cat
    /\ stt = "all" \/ it.status = stt
    /\ q = <<>> \/ IsSubstr(Lower(q), Lower(blob))
    /\ ~only_mine \/ it.created_by = viewer

Concatenated(it) == it.title \o it.description \o it.address
SpaceJoined(it) == it.title \o <<SP>> \o it.description \o <<SP>> \o it.address

\* C7, as claimed: a record is in the result iff it meets the category, status,
\* text and owner criteria, the text being looked for in the lowercased
\* concatenation of title, description and address.
C7_Original ==
    viewer # None =>
        LET Match(it) == Criteria(it, Concatenated(it)) IN filtered = SelectSeq(Data, Match)

\* C7, amended: the text is looked for in the lowercased title, description and
\* address joined by single spaces; with the empty criteria every record is in
\* the result.
C7_Amended ==
    viewer # None =>
        /\ LET Match(it) == Criteria(it, SpaceJoined(it)) IN filtered = SelectSeq(Data, Match)
        /\ (cat = "all" /\ stt = "all" /\ q = <<>> /\ ~only_mine) => filtered = Data

\* a search text that spans the space between title and description finds a record
C7_Witness ==
    /\ viewer # None
    /\ q = <<"a", SP, "b">>
    /\ filtered # <<>>
    /\ Len(filtered) < Len(Data)

----------------------------------------------------------------------------
(* Properties of concurrent sessions (SpecConc) *)

\* C8, as claimed: while a save_data is in progress, and nothing else writes,
\* load_data returns the collection as it was before the save or the collection
\* being saved.
C8_AtomicSave ==
    \A s \in Sessions :
        (pc[s] = "write" /\ clean[s]) => (Data = before[s] \/ Data = mem[s])

\* C9: nothing stops or merges a save: a save_data that runs from its open to
\* its close with no other write in between leaves exactly the saving session's
\* in-memory list on file, whatever was saved since that session loaded.
C9_LastWriterWins ==
    [][\A s \in Sessions :
         (pc[s] = "write" /\ pc'[s] = "idle" /\ clean[s]) => load_data(file') = mem[s]]_vars

\* two upvotes of one issue have been saved and the issue has one vote
C9_Witness ==
    /\ \A s \in Sessions : pc[s] = "idle"
    /\ \E i \in DOMAIN Data : nUp[Data[i].id] = 2 /\ Data[i].votes = 1

\* C10, as claimed: a persisted update log starts with the seed entry, and
\* every entry once persisted stays at its position in every later persisted
\* state of the record.
C10_AppendOnly ==
    [][\A i \in DOMAIN load_data(file') :
         LET log == load_data(file')[i].updates
         IN  /\ log # <<>>
             /\ log[1].text = "Issue reported" /\ log[1].status = "open"
             /\ IsPrefix(persisted[load_data(file')[i].id], log)]_vars

====
